---- MODULE Spec2Model ----
(***************************************************************************)
(* Track lifecycle and delivery subsystem of the DJ Mix Extender server:   *)
(* the storage facade (PostgresStorage), the path guard                    *)
(* (validateAndSanitizePath, createSafeOutputPath) and the route handlers  *)
(* registered by registerRoutes.                                           *)
(*                                                                         *)
(* Paths are modelled as records [abs, segs]: segs is the sequence of path *)
(* segments and every segment is a sequence of tokens.  The tokens ".",    *)
(* "~", "/", ":" ... stand for those single characters; every other token  *)
(* stands for a run of characters that contains none of them.              *)
(***************************************************************************)
EXTENDS Integers, Sequences, FiniteSets, TLC

\* ------------------------------------------------------------------ bounds
MaxSegs == 4
MaxRequests == 4
MaxConcurrent == 2
MaxTracks == 1

\* versions of a stored track that is streamed or downloaded
MaxVersions == 3

\* sizes of the files served, and the byte positions asked for
MaxFileLength == 3

MaxByte == 4

\* ------------------------------------------------------- path primitives
Null == [abs |-> FALSE, segs |-> <<>>]

DotDot == <<".", ".">>

Dot == <<".">>

\* process.cwd(): the directory the server was started in
Cwd == << <<"app">> >>

uploadsDir == [abs |-> TRUE, segs |-> Cwd \o << <<"uploads">> >>]

resultDir == [abs |-> TRUE, segs |-> Cwd \o << <<"results">> >>]

IsPrefix(s, t) == Len(s) <= Len(t) /\ SubSeq(t, 1, Len(s)) = s

\* POSIX normalisation of a segment list: "" and "." are dropped, ".."
\* removes the segment before it (and is dropped at the root)
RECURSIVE NormalizeSegs(_, _)
NormalizeSegs(acc, rest) ==
    IF rest = <<>> THEN acc
    ELSE LET s == Head(rest) IN
         IF s = <<>> \/ s = Dot THEN NormalizeSegs(acc, Tail(rest))
         ELSE IF s = DotDot
              THEN NormalizeSegs(IF acc = <<>> THEN acc
                                 ELSE SubSeq(acc, 1, Len(acc) - 1), Tail(rest))
              ELSE NormalizeSegs(Append(acc, s), Tail(rest))

\* path.resolve(p)
Resolve(p) ==
    [abs |-> TRUE,
     segs |-> NormalizeSegs(<<>>, IF p.abs THEN p.segs ELSE Cwd \o p.segs)]

\* path.join(dir, name) for an absolute dir and a single file name
Join(dir, name) ==
    [abs |-> dir.abs, segs |-> NormalizeSegs(<<>>, Append(dir.segs, name))]

ALLOWED_DIRECTORIES == {Resolve(uploadsDir), Resolve(resultDir)}

ALLOWED_EXTENSIONS == {<<".", "mp3">>, <<".", "wav">>, <<".", "flac">>, <<".", "aiff">>}

\* String.prototype.toLowerCase on a token
LowerTok(t) ==
    CASE t = "MP3" -> "mp3"
      [] t = "WAV" -> "wav"
      [] t = "A" -> "a"
      [] OTHER -> t

ToLowerCase(seg) == [i \in 1..Len(seg) |-> LowerTok(seg[i])]

LastDot(seg) ==
    LET is == {i \in 1..Len(seg) : seg[i] = "."}
    IN IF is = {} THEN 0 ELSE CHOOSE i \in is : \A j \in is : j <= i

\* path.extname of a file name: from the last "." to the end; "" when there
\* is no ".", when the only "." is the first character, and for ".."
ExtnameSeg(seg) ==
    LET i == LastDot(seg)
    IN IF i <= 1 \/ seg = DotDot THEN <<>> ELSE SubSeq(seg, i, Len(seg))

Basename(p) == IF p.segs = <<>> THEN <<>> ELSE p.segs[Len(p.segs)]

Extname(p) == ExtnameSeg(Basename(p))

\* String.prototype.includes("..") / includes("~") on the text of a path
SegHasDotDot(seg) == \E i \in 1..(Len(seg) - 1) : seg[i] = "." /\ seg[i + 1] = "."

IncludesDotDot(p) == \E k \in 1..Len(p.segs) : SegHasDotDot(p.segs[k])

IncludesTilde(p) == \E k \in 1..Len(p.segs) : \E i \in 1..Len(p.segs[k]) : p.segs[k][i] = "~"

\* resolvedPath.startsWith(allowedDir + path.sep) || resolvedPath === allowedDir
InDirectory(resolvedPath, allowedDir) ==
    \/ /\ Len(resolvedPath.segs) > Len(allowedDir.segs)
       /\ IsPrefix(allowedDir.segs, resolvedPath.segs)
    \/ resolvedPath = allowedDir

validateAndSanitizePath(filePath) ==
    LET resolvedPath == Resolve(filePath)
        isInAllowedDirectory ==
            \E allowedDir \in ALLOWED_DIRECTORIES : InDirectory(resolvedPath, allowedDir)
        fileExtension == ToLowerCase(Extname(resolvedPath))
    IN IF ~isInAllowedDirectory THEN Null
       ELSE IF fileExtension \notin ALLOWED_EXTENSIONS THEN Null
       ELSE IF IncludesDotDot(resolvedPath) \/ IncludesTilde(resolvedPath) THEN Null
       ELSE resolvedPath

\* sanitizedFilename = filename.replace(/[\/\\:*?"<>|]/g, "_")
UnsafeChars == {"/", "\\", ":", "*", "?", "\"", "<", ">", "|"}

SanitizeFilename(filename) ==
    [i \in 1..Len(filename) |-> IF filename[i] \in UnsafeChars THEN "_" ELSE filename[i]]

\* resolvedBaseDir.startsWith(allowedDir): a comparison of the texts, so the
\* last segment of allowedDir need only be a prefix of the segment in its place
TextStartsWith(p, d) ==
    LET n == Len(d.segs)
    IN \/ n = 0
       \/ /\ Len(p.segs) >= n
          /\ SubSeq(p.segs, 1, n - 1) = SubSeq(d.segs, 1, n - 1)
          /\ IsPrefix(d.segs[n], p.segs[n])

createSafeOutputPath(baseDir, filename) ==
    LET sanitizedFilename == SanitizeFilename(filename)
        resolvedBaseDir == Resolve(baseDir)
        isAllowedBaseDir ==
            \E allowedDir \in ALLOWED_DIRECTORIES : TextStartsWith(resolvedBaseDir, allowedDir)
    IN IF ~isAllowedBaseDir THEN Null
       ELSE validateAndSanitizePath(Join(resolvedBaseDir, sanitizedFilename))

\* decimal text of a natural number
Digits == <<"0", "1", "2", "3", "4", "5", "6", "7", "8", "9">>

RECURSIVE NumToks(_)
NumToks(n) ==
    IF n < 10 THEN <<Digits[n + 1]>>
    ELSE NumToks(n \div 10) \o <<Digits[(n % 10) + 1]>>

\* path.basename(name, ext): the name without a trailing ext
BasenameNoExt(name, ext) ==
    IF ext # <<>> /\ Len(ext) < Len(name)
       /\ SubSeq(name, Len(name) - Len(ext) + 1, Len(name)) = ext
    THEN SubSeq(name, 1, Len(name) - Len(ext))
    ELSE name

\* `${outputBase}_extended_v${version + 1}${fileExt}`
ExtendedFilename(originalFilename, version) ==
    LET fileExt == ExtnameSeg(originalFilename)
        outputBase == BasenameNoExt(originalFilename, fileExt)
    IN outputBase \o <<"_extended_v">> \o NumToks(version + 1) \o fileExt

\* --------------------------------------------------------- track records
NullDuration == -1

NullSettings == "null"

\* format, bitrate, duration, bpm and key of a row that was not analysed
NullInfo == "null"

\* column defaults of a new audio_tracks row
DefaultVersionCounts == {0, 1}

NewTrack(originalFilename, originalPath, versionCount) ==
    [originalFilename |-> originalFilename,
     originalPath |-> originalPath,
     audioInfo |-> NullInfo,
     status |-> "uploaded",
     settings |-> NullSettings,
     extendedPaths |-> <<>>,
     extendedDurations |-> <<>>,
     versionCount |-> versionCount,
     extendedBy |-> <<>>]

\* the value of a track variable that holds no record
NoTrack == [NewTrack(<<>>, Null, 0) EXCEPT !.status = "none"]

\* request bodies of POST /api/tracks/:id/process
Bodies == {"settings", "malformed"}

\* processingSettingsSchema.parse(body) succeeds
SettingsValid(body) == body = "settings"

\* uploaded file names (file.originalname)
Filenames ==
    { <<"song", ".", "mp3">>, <<"so", "~", "ng", ".", "wav">>, <<"song", ".", "txt">> }

\* ------------------------------------------------------------- variables
VARIABLES
    db,        \* audio_tracks table: track id -> row
    nextId,    \* next serial id of audio_tracks
    req,       \* the process requests being handled and the jobs they started
    response,  \* the response sent last
    jobs,      \* history, per track id: status writes of requests, jobs started, succeeded, failed
    started,   \* history: number of process requests that passed validation
    files,     \* the files on disk, each with the track it was written for
    analysis,  \* the tracks whose upload-time utils.py run has not ended
    pathIn,    \* argument of the path guard
    pathOut,   \* its result
    pathPc,
    delivery   \* the stream or download request answered last, and its answer

trackVars == <<db, nextId, req, response, jobs, started, files, analysis>>

pathVars == <<pathIn, pathOut, pathPc>>

vars == <<db, nextId, req, response, jobs, started, files, analysis, pathIn, pathOut, pathPc, delivery>>

TrackIds == 1..MaxTracks

Slots == 1..MaxConcurrent

\* parseInt(req.params.id) of a non-numeric id
NaN == -1

\* ------------------------------------------------------- PostgresStorage
getAudioTrack(d, id) == IF id \in DOMAIN d THEN d[id] ELSE NoTrack

\* UPDATE audio_tracks SET update WHERE id = id: only the columns named in
\* update change, and no row changes when the id is absent
updateAudioTrack(d, id, update) ==
    IF id \in DOMAIN d
    THEN [d EXCEPT ![id] =
            [f \in DOMAIN d[id] |-> IF f \in DOMAIN update THEN update[f] ELSE d[id][f]]]
    ELSE d

createAudioTrack(d, id, track) == [i \in DOMAIN d \cup {id} |-> IF i = id THEN track ELSE d[i]]

deleteAllUserTracks(d) == [i \in {} |-> NoTrack]

\* every row belongs to the one (demo) user
getAudioTracksByUserId(d) == d

\* ------------------------------------------------------------ the handlers
IdleRequest ==
    [pc |-> "idle", id |-> 0, body |-> "malformed", track |-> NoTrack,
     outputPath |-> Null, ticket |-> 0, fresh |-> NoTrack,
     extendedDuration |-> NullDuration,
     before |-> 0,    \* history: completion writes finished when the job re-fetched
     res |-> 0,       \* status of the response this request has been sent
     args |-> <<>>,   \* the paths handed to audioProcessor.py
     guarded |-> {}]  \* the results validateAndSanitizePath returned to this request

NoResponse == [op |-> "none", id |-> 0, body |-> "none", code |-> 0]

Response(op, id, body, code) == [op |-> op, id |-> id, body |-> body, code |-> code]

\* fs.unlinkSync(path) after fs.existsSync(path)
Unlink(fs, path) == {f \in fs : f.path # path}

\* a file is written at path, replacing what was there
WriteFile(fs, path, id) == Unlink(fs, path) \cup {[path |-> path, track |-> id]}

\* req.query.version: absent or not a number, or an integer
NoVersion == [given |-> FALSE, n |-> 0]

\* req.headers.range: absent, "bytes=start-end" or "bytes=start-"
NoRange == [given |-> FALSE, start |-> 0, hasEnd |-> FALSE, end |-> 0]

NoDelivery ==
    [op |-> "none", id |-> 0, type |-> "none", version |-> NoVersion, range |-> NoRange,
     code |-> 0, opened |-> Null, fileSize |-> 0, contentRange |-> <<>>,
     contentLength |-> 0, sent |-> 0, filename |-> <<>>, accessed |-> {},
     status |-> "none", tracks |-> [i \in {} |-> NoTrack]]

NoJobs == [updates |-> 0, dispatched |-> 0, succeeded |-> 0, failed |-> 0]

Init ==
    /\ db = [i \in {} |-> NoTrack]
    /\ nextId = 1
    /\ req = [r \in Slots |-> IdleRequest]
    /\ response = NoResponse
    /\ jobs = [i \in TrackIds |-> NoJobs]
    /\ started = 0
    /\ files = {}
    /\ analysis = {}
    /\ pathIn = Null
    /\ pathOut = Null
    /\ pathPc = "off"
    /\ delivery = NoDelivery

\* multer's diskStorage: uploadsDir / uniqueSuffix + extname(originalname)
UploadedFilePath(originalname, unique) ==
    Join(uploadsDir, NumToks(unique) \o ExtnameSeg(originalname))

allowedMimeTypes_WithOgg ==
    {"audio/mpeg", "audio/wav", "audio/flac", "audio/aiff", "audio/x-aiff", "audio/ogg"}

\* multer's fileFilter
allowedMimeTypes == {"audio/mpeg", "audio/wav", "audio/flac", "audio/aiff", "audio/x-aiff"}

\* multer's limits.fileSize
limits_fileSize == 15 * 1024 * 1024

\* the mime types and sizes of the uploads tried
MimeTypes == allowedMimeTypes \cup {"audio/ogg"}

FileSizes == {1, limits_fileSize, limits_fileSize + 1}

\* POST /api/tracks/upload: multer filters by mime type, stores the file and
\* enforces the size limit (its errors go to the error middleware, no file
\* is left); the handler validates the stored path, removes the file when
\* it is rejected, and creates the track otherwise
UploadTrack(originalname, mimetype, size, versionCount) ==
    /\ nextId <= MaxTracks
    /\ LET filePath == UploadedFilePath(originalname, nextId)
           safeUploadPath == validateAndSanitizePath(filePath)
       IN IF mimetype \notin allowedMimeTypes \/ size > limits_fileSize
          THEN /\ response' = Response("upload", 0, "none", 500)
               /\ UNCHANGED <<db, nextId, files, analysis>>
          ELSE IF safeUploadPath = Null
          THEN /\ response' = Response("upload", 0, "none", 400)
               /\ files' = Unlink(WriteFile(files, filePath, nextId), filePath)
               /\ UNCHANGED <<db, nextId, analysis>>
          ELSE /\ db' = createAudioTrack(db, nextId,
                            NewTrack(originalname, safeUploadPath, versionCount))
               /\ files' = WriteFile(files, filePath, nextId)
               /\ nextId' = nextId + 1
               /\ analysis' = analysis \cup {nextId}
               /\ response' = Response("upload", nextId, "none", 201)
    /\ UNCHANGED <<req, jobs, started, pathVars, delivery>>

\* outputs of the upload-time utils.py run: no output line, a line that is
\* not JSON, JSON with the audio info
UploadAnalysisOutputs == {"none", "unparseable", "info"}

AudioInfoUpdate_SetsStatus(out) == [audioInfo |-> out, status |-> "completed"]

\* {format, bitrate, duration, bpm, key} of the parsed output
AudioInfoUpdate(out) == [audioInfo |-> out]

\* utils.py exits with 0 after the upload: the row is updated when the
\* output parses, otherwise the error is logged
UploadAnalysisDone(id, out) ==
    /\ id \in analysis
    /\ analysis' = analysis \ {id}
    /\ db' = IF out = "info" THEN updateAudioTrack(db, id, AudioInfoUpdate(out)) ELSE db
    /\ UNCHANGED <<response, nextId, req, jobs, started, files, pathVars, delivery>>

\* utils.py fails after the upload: .catch logs the error
UploadAnalysisFails(id) ==
    /\ id \in analysis
    /\ analysis' = analysis \ {id}
    /\ UNCHANGED <<response, db, nextId, req, jobs, started, files, pathVars, delivery>>

\* the columns of the tracks that the delete handler uses
PathsOfTracks(d) ==
    [id \in DOMAIN d |-> [originalPath |-> d[id].originalPath,
                          extendedPaths |-> d[id].extendedPaths]]

\* the paths of the tracks read that pass validateAndSanitizePath
SafePathsOf(tracks) ==
    UNION {{validateAndSanitizePath(tracks[id].originalPath)}
           \cup {validateAndSanitizePath(tracks[id].extendedPaths[i]) :
                     i \in 1..Len(tracks[id].extendedPaths)} : id \in DOMAIN tracks}

\* DELETE /api/tracks: the owner's tracks are read, their files are removed,
\* then all rows are deleted
ClearTracks ==
    /\ DOMAIN db # {}
    /\ files' = {f \in files : f.path \notin SafePathsOf(PathsOfTracks(db))}
    /\ db' = deleteAllUserTracks(db)
    /\ response' = Response("clear", 0, "none", 200)
    /\ UNCHANGED <<nextId, req, jobs, started, pathVars, delivery, analysis>>

VersionLimitExceeded_AtThree(track) == track.versionCount >= 3

VersionLimitExceeded(track) == track.versionCount > 3

StatusOnRequest(track) ==
    IF Len(track.extendedPaths) > 0 THEN "regenerate" ELSE "processing"

\* what the process handler and its job keep of a row they read: they use
\* no audio info column
LifecycleRow(track) == [track EXCEPT !.audioInfo = NullInfo]

\* POST /api/tracks/:id/process, up to the first write: the id is parsed, the
\* track is read, the version limit and the settings are checked
ProcessRead(r, id, body) ==
    /\ req[r].pc = "idle"
    /\ \A q \in Slots : q < r => req[q].pc # "idle"
    /\ LET track == LifecycleRow(getAudioTrack(db, id))
           code == IF id = NaN THEN 400
                   ELSE IF track = NoTrack THEN 404
                   ELSE IF VersionLimitExceeded(track) THEN 400
                   ELSE IF ~SettingsValid(body) THEN 500
                   ELSE 0
       IN IF code # 0
          THEN /\ response' = Response("process", id, body, code)
               /\ UNCHANGED <<req, started>>
          ELSE /\ started < MaxRequests
               /\ req' = [req EXCEPT ![r] = [IdleRequest EXCEPT !.pc = "validated",
                                !.id = id, !.body = body, !.track = track]]
               /\ started' = started + 1
               /\ UNCHANGED response
    /\ UNCHANGED <<db, nextId, jobs, files, pathVars, delivery, analysis>>

\* await storage.updateAudioTrack(id, {status, settings})
ProcessUpdate(r) ==
    /\ req[r].pc = "validated"
    /\ db' = updateAudioTrack(db, req[r].id,
                [status |-> StatusOnRequest(req[r].track), settings |-> req[r].body])
    /\ req' = [req EXCEPT ![r].pc = "updated"]
    /\ jobs' = [jobs EXCEPT ![req[r].id].updates = @ + 1]
    /\ UNCHANGED <<response, nextId, started, files, pathVars, delivery, analysis>>

OutputPath(track) ==
    createSafeOutputPath(resultDir,
        ExtendedFilename(track.originalFilename, Len(track.extendedPaths)))

\* the output path is built from the track read at the start; the 202 is
\* sent and audioProcessor.py is started
ProcessDispatch(r) ==
    /\ req[r].pc = "updated"
    /\ LET outputPath == OutputPath(req[r].track)
       IN IF outputPath = Null
          THEN /\ req' = [req EXCEPT ![r] = IdleRequest]
               /\ response' = Response("process", req[r].id, req[r].body, 400)
               /\ UNCHANGED jobs
          ELSE /\ jobs' = [jobs EXCEPT ![req[r].id].dispatched = @ + 1]
               /\ req' = [req EXCEPT ![r].pc = "running", ![r].outputPath = outputPath,
                                     ![r].ticket = jobs'[req[r].id].dispatched,
                                     ![r].res = 202,
                                     ![r].args = <<req[r].track.originalPath, outputPath>>,
                                     ![r].guarded = {outputPath}]
               /\ response' = Response("process", req[r].id, req[r].body, 202)
    /\ UNCHANGED <<db, nextId, started, files, pathVars, delivery, analysis>>

ErrorWrite_ResetsVersions(d, id) ==
    updateAudioTrack(d, id, [status |-> "error", extendedPaths |-> <<>>, extendedDurations |-> <<>>])

ErrorWrite_CountsAttempt(d, id) ==
    updateAudioTrack(d, id, [status |-> "error", versionCount |-> getAudioTrack(d, id).versionCount + 1])

\* .catch: storage.updateAudioTrack(id, {status: "error"})
ErrorWrite(d, id) == updateAudioTrack(d, id, [status |-> "error"])

\* audioProcessor.py exits with 0, which takes its input file to be on
\* disk: the output file is written and utils.py is started on it
ToolSucceeds(r) ==
    /\ req[r].pc = "running"
    /\ \E f \in files : f.path = req[r].args[1]
    /\ req' = [req EXCEPT ![r].pc = "analysing"]
    /\ files' = WriteFile(files, req[r].args[2], req[r].id)
    /\ UNCHANGED <<response, db, nextId, jobs, started, pathVars, delivery, analysis>>

JobFailed_Retries(r) ==
    /\ db' = ErrorWrite(db, req[r].id)
    /\ req' = [req EXCEPT ![r].pc = "running"]
    /\ jobs' = [jobs EXCEPT ![req[r].id].failed = @ + 1, ![req[r].id].dispatched = @ + 1]
    /\ UNCHANGED <<response, nextId, started, files, pathVars, delivery, analysis>>

JobFailed_Responds(r) ==
    /\ db' = ErrorWrite(db, req[r].id)
    /\ req' = [req EXCEPT ![r] = IdleRequest]
    /\ jobs' = [jobs EXCEPT ![req[r].id].failed = @ + 1]
    /\ response' = Response("process", req[r].id, req[r].body, 500)
    /\ UNCHANGED <<nextId, started, files, pathVars, delivery, analysis>>

JobFailed(r) ==
    /\ db' = ErrorWrite(db, req[r].id)
    /\ req' = [req EXCEPT ![r] = IdleRequest]
    /\ jobs' = [jobs EXCEPT ![req[r].id].failed = @ + 1]
    /\ UNCHANGED <<response, nextId, started, files, pathVars, delivery, analysis>>

\* audioProcessor.py fails: the promise rejects and .catch runs
ToolFails(r) ==
    /\ req[r].pc = "running"
    /\ JobFailed(r)

\* outputs of utils.py on the extended file: no output line, a line that
\* is not JSON, JSON without a duration, JSON with a duration
AnalysisOutputs == {"none", "unparseable", "noduration", "duration"}

Duration == 245

\* extendedDuration = audioInfo.duration || null, null without parseable output
ExtendedDurationOf(out) == IF out = "duration" THEN Duration ELSE NullDuration

\* utils.py exits with 0: the duration is parsed and the track is re-read;
\* a missing track throws into .catch
AnalysisDone(r, out) ==
    /\ req[r].pc = "analysing"
    /\ LET track == LifecycleRow(getAudioTrack(db, req[r].id))
       IN IF track = NoTrack
          THEN JobFailed(r)
          ELSE /\ req' = [req EXCEPT ![r].pc = "refetched", ![r].fresh = track,
                                     ![r].before = jobs[req[r].id].succeeded,
                                     ![r].extendedDuration = ExtendedDurationOf(out)]
               /\ UNCHANGED <<response, db, nextId, jobs, started, files, pathVars, delivery, analysis>>

\* utils.py fails: the inner promise rejects and the outer .catch runs
AnalysisFails(r) ==
    /\ req[r].pc = "analysing"
    /\ JobFailed(r)

NextVersionCount_NoIncrement(track) == IF track.versionCount = 0 THEN 1 ELSE track.versionCount

\* (track.versionCount || 1) + 1
NextVersionCount(track) == (IF track.versionCount = 0 THEN 1 ELSE track.versionCount) + 1

CompletionUpdate_PathsOnly(r) ==
    [status |-> "completed",
     extendedPaths |-> Append(req[r].fresh.extendedPaths, req[r].outputPath),
     versionCount |-> NextVersionCount(req[r].fresh),
     extendedBy |-> Append(req[r].fresh.extendedBy, req[r].ticket)]

CompletionUpdate(r) ==
    [status |-> "completed",
     extendedPaths |-> Append(req[r].fresh.extendedPaths, req[r].outputPath),
     extendedDurations |-> Append(req[r].fresh.extendedDurations, req[r].extendedDuration),
     versionCount |-> NextVersionCount(req[r].fresh),
     extendedBy |-> Append(req[r].fresh.extendedBy, req[r].ticket)]

\* storage.updateAudioTrack(id, {status: "completed", extendedPaths, ...})
CompletionWrite(r) ==
    /\ req[r].pc = "refetched"
    /\ db' = updateAudioTrack(db, req[r].id, CompletionUpdate(r))
    /\ req' = [req EXCEPT ![r] = IdleRequest]
    /\ jobs' = [jobs EXCEPT ![req[r].id].succeeded = @ + 1]
    /\ UNCHANGED <<response, nextId, started, files, pathVars, delivery, analysis>>

Next ==
    \/ \E name \in Filenames, mime \in MimeTypes, size \in FileSizes, vc \in DefaultVersionCounts :
          UploadTrack(name, mime, size, vc)
    \/ \E id \in TrackIds, out \in UploadAnalysisOutputs : UploadAnalysisDone(id, out)
    \/ \E id \in TrackIds : UploadAnalysisFails(id)
    \/ ClearTracks
    \/ \E r \in Slots, id \in TrackIds \cup {NaN}, body \in Bodies : ProcessRead(r, id, body)
    \/ \E r \in Slots : ProcessUpdate(r)
    \/ \E r \in Slots : ProcessDispatch(r)
    \/ \E r \in Slots : ToolSucceeds(r)
    \/ \E r \in Slots : ToolFails(r)
    \/ \E r \in Slots, out \in AnalysisOutputs : AnalysisDone(r, out)
    \/ \E r \in Slots : AnalysisFails(r)
    \/ \E r \in Slots : CompletionWrite(r)

Spec == Init /\ [][Next]_vars

\* ------------------------------------------------- properties of the tracks
InFlightPcs == {"running", "analysing", "refetched"}

InFlight(id) == {r \in Slots : req[r].id = id /\ req[r].pc \in InFlightPcs}

\* C1: for any single track at most one processing job is in flight at any
\* time (dispatched, and its completed/error result not yet written)
C1_AtMostOneJobInFlight == \A id \in TrackIds : Cardinality(InFlight(id)) <= 1

\* a process request was answered in this step without being accepted
RejectedNow ==
    /\ response' # response
    /\ response'.op = "process"
    /\ req' = req

C2_Rejects ==
    RejectedNow /\ response'.id \in DOMAIN db /\ db[response'.id].versionCount > 3
        => response'.code = 400 /\ db' = db /\ jobs' = jobs

C2_NeverAcceptsAboveLimit ==
    \A r \in Slots :
        req[r].pc = "idle" /\ req'[r].pc # "idle" => req'[r].track.versionCount <= 3

C2_AcceptsAtThree ==
    /\ ~(/\ RejectedNow
         /\ response'.id \in DOMAIN db
         /\ db[response'.id].versionCount = 3
         /\ SettingsValid(response'.body))
    /\ \A r \in Slots :
          req[r].pc = "updated" /\ req'[r].pc # "updated" /\ req[r].track.versionCount = 3
            => req'[r].pc = "running" /\ response' = Response("process", req[r].id, req[r].body, 202)

\* C2: a process request on a track whose stored versionCount is above 3 is
\* answered 400, starts no job and leaves the track record unchanged; one
\* with valid settings on a track whose versionCount is 3 is accepted with 202
C2_VersionLimit == [][C2_Rejects /\ C2_NeverAcceptsAboveLimit /\ C2_AcceptsAtThree]_vars

\* a request is refused for the limit while a job accepted at versionCount 3 runs
C2_Witness ==
    /\ response.op = "process" /\ response.code = 400
    /\ response.id \in DOMAIN db /\ db[response.id].versionCount > 3
    /\ \E r \in Slots : req[r].pc = "running" /\ req[r].track.versionCount = 3

\* C3: in every reachable state a track holds at most 3 extended versions
C3_AtMostThreeVersions == \A id \in DOMAIN db : Len(db[id].extendedPaths) <= 3

StrictlyIncreasing(q) == \A i \in 1..(Len(q) - 1) : q[i] < q[i + 1]

\* C4: after N jobs of a track have succeeded, extendedPaths and
\* extendedDurations both have N entries, in the order the jobs were dispatched
C4_AppendInvariant ==
    \A id \in DOMAIN db :
        /\ Len(db[id].extendedPaths) = jobs[id].succeeded
        /\ Len(db[id].extendedDurations) = jobs[id].succeeded
        /\ StrictlyIncreasing(db[id].extendedBy)

\* C5: two accepted process requests on the same track never get the same
\* output path, so no two jobs write the same output file
C5_DistinctOutputPaths ==
    \A r1, r2 \in Slots :
        r1 # r2 /\ req[r1].id = req[r2].id /\ req[r1].pc \in InFlightPcs /\ req[r2].pc \in InFlightPcs
            => req[r1].outputPath # req[r2].outputPath

\* the result-directory path <base>_extended_v1<ext> of a track
FirstVersionPath(track) ==
    LET ext == ExtnameSeg(track.originalFilename)
        base == SubSeq(track.originalFilename, 1, Len(track.originalFilename) - Len(ext))
    IN [abs |-> TRUE, segs |-> Append(resultDir.segs, base \o <<"_extended_v", "1">> \o ext)]

\* exactly one process request has written to the track and its job succeeded
OneRequestSucceeded(id) ==
    id \in DOMAIN db /\ jobs[id].updates = 1 /\ jobs[id].succeeded = 1

FirstVersionRecorded(id) ==
    /\ db[id].status = "completed"
    /\ db[id].extendedPaths = <<FirstVersionPath(db[id])>>

\* C6 as stated: after one accepted request whose job succeeds the track is
\* completed, holds the single path <base>_extended_v1<ext>, and versionCount = 1
C6_FirstVersion_Original ==
    \A id \in TrackIds :
        OneRequestSucceeded(id) => FirstVersionRecorded(id) /\ db[id].versionCount = 1

\* C6: after one accepted request whose job succeeds the track is completed,
\* holds the single path <base>_extended_v1<ext>, and versionCount = 2
C6_FirstVersion ==
    \A id \in TrackIds :
        OneRequestSucceeded(id) => FirstVersionRecorded(id) /\ db[id].versionCount = 2

C6_Witness == \E id \in TrackIds : OneRequestSucceeded(id)

LegalEdges ==
    { <<"uploaded", "processing">>, <<"processing", "completed">>,
      <<"completed", "regenerate">>, <<"regenerate", "completed">>,
      <<"processing", "error">>, <<"regenerate", "error">>,
      <<"error", "processing">>, <<"error", "regenerate">> }

\* C7: every change of a track's status follows a legal edge of the lifecycle
C7_LegalStatusEdges ==
    [][\A id \in DOMAIN db \cap DOMAIN db' :
          db'[id].status # db[id].status => <<db[id].status, db'[id].status>> \in LegalEdges]_vars

\* C8: when the extension tool of a job fails, the job sets the track's
\* status to error and leaves every other field of the record as it was
C8_FailureKeepsVersions ==
    [][\A r \in Slots :
          req[r].pc = "running" /\ req'[r].pc = "idle" /\ req[r].id \in DOMAIN db
            => db' = [db EXCEPT ![req[r].id].status = "error"]]_vars

\* a job has failed on a track that holds a version
C8_Witness ==
    \E id \in DOMAIN db :
        jobs[id].failed > 0 /\ db[id].status = "error" /\ Len(db[id].extendedPaths) > 0

\* C9 as stated: every dispatched job increments the track's versionCount
C9_CountsDispatches_Original ==
    [][\A r \in Slots :
          req[r].pc = "updated" /\ req'[r].pc = "running" /\ req[r].id \in DOMAIN db
            => db'[req[r].id].versionCount = db[req[r].id].versionCount + 1]_vars

\* C9: versionCount counts successes: it changes only in a job's completion
\* write, to one more than the value the job re-read (0 counting as 1);
\* neither the dispatch of a job nor its failure changes it
C9_CountsSuccesses ==
    [][\A id \in DOMAIN db \cap DOMAIN db' :
          db'[id].versionCount # db[id].versionCount
            => \E r \in Slots :
                  /\ req[r].pc = "refetched" /\ req'[r].pc = "idle" /\ req[r].id = id
                  /\ db'[id].versionCount =
                        (IF req[r].fresh.versionCount = 0 THEN 1 ELSE req[r].fresh.versionCount) + 1]_vars

\* more jobs were dispatched for a track than its versionCount, one had failed
C9_Witness ==
    \E id \in DOMAIN db : jobs[id].failed > 0 /\ jobs[id].dispatched > db[id].versionCount

\* C11: every path handed to the file system or to the external tool on
\* behalf of a request or a job has passed validateAndSanitizePath in that
\* same operation
C11_EveryPathGuarded ==
    \A r \in Slots :
        req[r].pc \in InFlightPcs => \A i \in 1..Len(req[r].args) : req[r].args[i] \in req[r].guarded

\* C12: a process request whose body violates the settings schema is
\* answered 400, dispatches no job and leaves the track record unchanged
C12_InvalidSettings400 ==
    [][RejectedNow /\ response'.id \in DOMAIN db /\ ~SettingsValid(response'.body)
          => response'.code = 400 /\ db' = db /\ jobs' = jobs]_vars

\* C13: extendedPaths is append-only: across every change of a track the
\* previous extendedPaths is a prefix of the new one
C13_AppendOnly ==
    [][\A id \in DOMAIN db \cap DOMAIN db' :
          IsPrefix(db[id].extendedPaths, db'[id].extendedPaths)]_vars

\* C14: a track's versionCount never decreases
C14_VersionCountMonotone ==
    [][\A id \in DOMAIN db \cap DOMAIN db' :
          db'[id].versionCount >= db[id].versionCount]_vars

\* C15: in every reachable state extendedPaths and extendedDurations of a
\* track have the same length
C15_PairedArrays ==
    \A id \in DOMAIN db : Len(db[id].extendedPaths) = Len(db[id].extendedDurations)

\* a track with two versions, one with a duration and one without
C15_Witness ==
    \E id \in DOMAIN db :
        /\ Len(db[id].extendedPaths) = 2
        /\ db[id].extendedDurations = <<Duration, NullDuration>>

\* C16: an accepted request is acknowledged with 202 before its job's
\* outcome is known: a job in flight has had its 202 sent, and no step of a
\* job changes or replaces a response
C16_AckBeforeOutcome ==
    [][\A r \in Slots :
          /\ req'[r].pc \in InFlightPcs => req'[r].res = 202
          /\ req[r].pc \in InFlightPcs /\ req'[r] # req[r] => response' = response]_vars

\* a job has ended in error while the last response is still its 202
C16_Witness ==
    \E id \in DOMAIN db :
        /\ db[id].status = "error" /\ jobs[id].failed = 1 /\ jobs[id].dispatched = 1
        /\ response = Response("process", id, "settings", 202)

\* the tracks that were deleted
Deleted == {id \in TrackIds : id < nextId /\ id \notin DOMAIN db}

\* no request and no job of the track is under way
Finished(id) == \A r \in Slots : req[r].id # id

\* C17: after a bulk delete has completed and the jobs in flight have
\* finished, no record of the track exists and none of its files (the upload,
\* any job output) is on disk; a job finishing after the delete never
\* re-creates the record
C17_DeleteLeavesNothing ==
    [][/\ \A id \in Deleted : id \notin DOMAIN db'
       /\ \A id \in TrackIds :
             (id < nextId' /\ id \notin DOMAIN db' /\ Finished(id)')
                 => ~\E f \in files' : f.track = id]_vars

\* an upload the claim counts as accepted: one of the five mime types, at
\* most 15 MiB, and a stored path that passes the path guard
UploadAccepted(originalname, mimetype, size) ==
    /\ mimetype \in {"audio/mpeg", "audio/wav", "audio/flac", "audio/aiff", "audio/x-aiff"}
    /\ size <= 15 * 1024 * 1024
    /\ validateAndSanitizePath(UploadedFilePath(originalname, nextId)) # Null

\* C20: an upload creates a track record if and only if it is accepted: a
\* rejected upload (mime type, size, stored path) creates none, an accepted
\* one creates exactly one record, with status uploaded and no versions
C20_UploadCreatesIffAccepted ==
    [][\A name \in Filenames, mime \in MimeTypes, size \in FileSizes, vc \in DefaultVersionCounts :
          UploadTrack(name, mime, size, vc) =>
              IF UploadAccepted(name, mime, size)
              THEN /\ nextId \notin DOMAIN db
                   /\ DOMAIN db' = DOMAIN db \cup {nextId}
                   /\ \A id \in DOMAIN db : db'[id] = db[id]
                   /\ db'[nextId].status = "uploaded"
                   /\ db'[nextId].extendedPaths = <<>>
                   /\ db'[nextId].extendedDurations = <<>>
              ELSE db' = db]_vars

\* an accepted upload has just created its record, and its file is stored
C20_Witness ==
    /\ response = Response("upload", 1, "none", 201)
    /\ DOMAIN db = {1}
    /\ db[1].status = "uploaded"
    /\ \E f \in files : f.path = db[1].originalPath

\* the request of slot r has written its status or has a job in flight
Handling(r) == req[r].pc \in {"updated"} \cup InFlightPcs

\* C21: whenever a track's status is processing or regenerate a job for it
\* is in flight (or its request is about to dispatch one), so the track
\* reaches completed or error; a rejected request leaves no in-flight status
C21_InFlightStatusHasJob ==
    \A id \in DOMAIN db :
        db[id].status \in {"processing", "regenerate"} =>
            \E r \in Slots : req[r].id = id /\ Handling(r)

\* C22: an accepted request sets the status to regenerate iff extendedPaths
\* is non-empty at the time the status is written, to processing otherwise,
\* and replaces the settings by those of the request
C22_StatusFromStoredPaths ==
    [][\A r \in Slots :
          req[r].pc = "validated" /\ req'[r].pc = "updated" /\ req[r].id \in DOMAIN db =>
              /\ db'[req[r].id].status =
                     IF Len(db[req[r].id].extendedPaths) > 0 THEN "regenerate" ELSE "processing"
              /\ db'[req[r].id].settings = req[r].body]_vars

\* C23: once the extension tool has succeeded no outcome of the analysis
\* step fails the job: the path is appended (with a null duration when there
\* is none) and the status becomes completed
C23_AnalysisBestEffort ==
    [][\A r \in Slots :
          req[r].pc = "analysing" /\ req'[r].pc # "analysing" /\ req[r].id \in DOMAIN db =>
              /\ req'[r].pc = "refetched"
              /\ jobs'[req[r].id].failed = jobs[req[r].id].failed
              /\ db'[req[r].id].status # "error" \/ db[req[r].id].status = "error"]_vars

\* the write of a job keeps the versions of the row it re-fetched, at their
\* positions, and adds one
WriteKeepsRefetched ==
    [][\A r \in Slots :
          /\ req[r].pc = "analysing" /\ req'[r].pc = "refetched"
                => req'[r].fresh = LifecycleRow(db[req[r].id])
          /\ req[r].pc = "refetched" /\ req'[r].pc # "refetched" /\ req[r].id \in DOMAIN db
                => /\ IsPrefix(req[r].fresh.extendedPaths, db'[req[r].id].extendedPaths)
                   /\ IsPrefix(req[r].fresh.extendedBy, db'[req[r].id].extendedBy)
                   /\ Len(db'[req[r].id].extendedPaths) = Len(req[r].fresh.extendedPaths) + 1]_vars

\* the versions of other jobs in a row
VersionsOfOthers(track, ticket) ==
    {i \in 1..Len(track.extendedBy) : track.extendedBy[i] # ticket}

\* C24: a job's completion write is based on the record as it is at
\* completion time: every version appended by another job whose write
\* finished before this job's re-fetch is still present, at its position,
\* after this job's write.  (A write appends one version and versions never
\* move, so the versions of the req[r].before writes that had finished are
\* all present exactly when the row holds that many versions of other jobs.)
C24_KeepsEarlierVersions ==
    [][\A r \in Slots :
          req[r].pc = "refetched" /\ req'[r].pc # "refetched" /\ req[r].id \in DOMAIN db
              => Cardinality(VersionsOfOthers(db'[req[r].id], req[r].ticket)) = req[r].before]_vars

\* C25: a failed job is never retried: a job is dispatched only by a
\* request that has just written its status, and a request that read a track
\* in status error with versionCount <= 3 and valid settings writes
\* processing or regenerate and is answered 202
C25_NoAutomaticRetry ==
    [][/\ \A id \in TrackIds :
             jobs'[id].dispatched # jobs[id].dispatched =>
                 \E r \in Slots : req[r].id = id /\ req[r].pc = "updated" /\ req'[r].pc = "running"
       /\ ~(/\ RejectedNow
            /\ response'.id \in DOMAIN db
            /\ db[response'.id].status = "error"
            /\ db[response'.id].versionCount <= 3
            /\ SettingsValid(response'.body))
       /\ \A r \in Slots :
             req[r].track.status = "error" =>
                 /\ req[r].pc = "validated" /\ req'[r].pc # "validated" /\ req[r].id \in DOMAIN db
                       => db'[req[r].id].status \in {"processing", "regenerate"}
                 /\ req[r].pc = "updated" /\ req'[r].pc # "updated"
                       => /\ req'[r].pc = "running"
                          /\ response' = Response("process", req[r].id, req[r].body, 202)]_vars

\* a request on a track in status error has been answered 202
C25_Witness ==
    \E r \in Slots :
        /\ req[r].track.status = "error" /\ req[r].pc = "running"
        /\ jobs[req[r].id].failed >= 1
        /\ response = Response("process", req[r].id, req[r].body, 202)

LifecycleColumns == {"status", "settings", "extendedPaths", "extendedDurations", "versionCount"}

\* C26: the upload-time analysis, whatever its outcome and however it
\* interleaves with requests and jobs, never changes status, settings,
\* extendedPaths, extendedDurations or versionCount of a track; when it fails
\* or its output does not parse it changes nothing
C26_AnalysisFrame ==
    [][\A id \in TrackIds :
          /\ \A out \in UploadAnalysisOutputs :
                UploadAnalysisDone(id, out) =>
                    /\ DOMAIN db' = DOMAIN db
                    /\ \A i \in DOMAIN db : \A f \in LifecycleColumns : db'[i][f] = db[i][f]
                    /\ out # "info" => db' = db
          /\ UploadAnalysisFails(id) => db' = db]_vars

\* the analysis has stored the audio info while a job of the track is in flight
C26_Witness ==
    \E id \in DOMAIN db :
        /\ db[id].audioInfo = "info"
        /\ db[id].status = "processing"
        /\ id \notin analysis
        /\ \E r \in Slots : req[r].id = id /\ req[r].pc = "analysing"

\* C28: for every track and every index i of its extendedPaths,
\* extendedPaths[i] is the output file named <base>_extended_v{i+1}<ext>
C28_PathsNamedByIndex ==
    \A id \in DOMAIN db : \A i \in 1..Len(db[id].extendedPaths) :
        Basename(db[id].extendedPaths[i]) = ExtendedFilename(db[id].originalFilename, i - 1)

\* ------------------------------------------------- the path guard alone
\* inputs of the path guard: every path of at most MaxSegs segments
RawSegments ==
    { <<"app">>, <<"uploads">>, <<"results">>, DotDot, <<"~">>,
      <<"a", ".", "mp3">>, <<"a", ".", "txt">>, <<"a", ".", ".", "mp3">>,
      <<"A", ".", "MP3">> }

RECURSIVE SeqsUpTo(_, _)
SeqsUpTo(S, n) ==
    IF n = 0 THEN {<<>>}
    ELSE LET shorter == SeqsUpTo(S, n - 1)
         IN shorter \cup {Append(q, s) : q \in {x \in shorter : Len(x) = n - 1}, s \in S}

RawPaths == {[abs |-> a, segs |-> q] : a \in BOOLEAN, q \in SeqsUpTo(RawSegments, MaxSegs) \ {<<>>}}

PathInit ==
    /\ db = [i \in {} |-> NoTrack]
    /\ nextId = 1
    /\ req = [r \in Slots |-> IdleRequest]
    /\ response = NoResponse
    /\ jobs = [i \in TrackIds |-> NoJobs]
    /\ started = 0
    /\ files = {}
    /\ analysis = {}
    /\ pathIn \in RawPaths
    /\ pathOut = Null
    /\ pathPc = "input"
    /\ delivery = NoDelivery

ValidatePath ==
    /\ pathPc = "input"
    /\ pathOut' = validateAndSanitizePath(pathIn)
    /\ pathPc' = "validated"
    /\ UNCHANGED <<pathIn, trackVars, delivery>>

\* file names given to createSafeOutputPath
OutputFilenames ==
    { <<"a", ".", "mp3">>, <<"a", ".", "txt">>, <<"a", "/", "b", ".", "mp3">>,
      <<".", ".", "/", "a", ".", "mp3">>, <<"a", ":", "*", ".", "wav">>,
      <<"~", "a", ".", "mp3">>, DotDot, Dot }

\* createSafeOutputPath(baseDir, filename) with the input path as baseDir
CreateOutputPath(filename) ==
    /\ pathPc = "input"
    /\ pathOut' = createSafeOutputPath(pathIn, filename)
    /\ pathPc' = "created"
    /\ UNCHANGED <<pathIn, trackVars, delivery>>

PathNext ==
    \/ ValidatePath
    \/ \E filename \in OutputFilenames : CreateOutputPath(filename)

PathSpec == PathInit /\ [][PathNext]_vars

\* ------------------------------------------- properties of the path guard
\* the text of the input has a ".." or a "~"
RawHasDotDot(p) == IncludesDotDot(p)

RawHasTilde(p) == IncludesTilde(p)

InsideAllowed(p) ==
    \E d \in {uploadsDir, resultDir} :
        Len(p.segs) > Len(d.segs) /\ SubSeq(p.segs, 1, Len(d.segs)) = d.segs

HasAllowedExtension(p) ==
    \E e \in {"mp3", "wav", "flac", "aiff"} :
        LET name == ToLowerCase(Basename(p))
        IN Len(name) > 2 /\ SubSeq(name, Len(name) - 1, Len(name)) = <<".", e>>

\* C10: validateAndSanitizePath returns null for every input whose text has
\* a ".." or "~", whose resolved form is outside the upload and result
\* directories, or whose extension is not allowed; a non-null result lies
\* inside an allowed directory and has an allowed extension
C10_RejectsUnsafe ==
    pathPc = "validated" =>
        /\ (\/ RawHasDotDot(pathIn) \/ RawHasTilde(pathIn)
            \/ ~InsideAllowed(Resolve(pathIn)) \/ ~HasAllowedExtension(Resolve(pathIn)))
              => pathOut = Null
        /\ pathOut # Null => InsideAllowed(pathOut) /\ HasAllowedExtension(pathOut)

\* the directory is an allowed directory or lies below one
AllowedBaseDir(dir) ==
    \E d \in {uploadsDir, resultDir} : IsPrefix(d.segs, dir.segs)

\* C30: createSafeOutputPath(baseDir, filename) returns null or a path inside
\* the upload or result directory that is a direct child of the resolved
\* baseDir, has an allowed extension and a file name without / \ : * ? " < > |;
\* it returns null whenever baseDir is not an allowed directory or below one
C30_SafeOutputPath ==
    pathPc = "created" =>
        LET resolvedBaseDir == Resolve(pathIn)
        IN /\ pathOut # Null =>
                /\ InsideAllowed(pathOut)
                /\ Len(pathOut.segs) = Len(resolvedBaseDir.segs) + 1
                /\ IsPrefix(resolvedBaseDir.segs, pathOut.segs)
                /\ HasAllowedExtension(pathOut)
                /\ \A i \in 1..Len(Basename(pathOut)) : Basename(pathOut)[i] \notin UnsafeChars
           /\ ~AllowedBaseDir(resolvedBaseDir) => pathOut = Null

\* ------------------------------------------------------- audio delivery
\* the tracks a read request can find: uploaded under an accepted name, with
\* the outputs of 0..MaxVersions successful jobs, in any status that a track
\* with that many versions takes
StoredNames ==
    {name \in Filenames :
        /\ validateAndSanitizePath(UploadedFilePath(name, 1)) # Null
        /\ \A i \in 0..MaxVersions :
              createSafeOutputPath(resultDir, ExtendedFilename(name, i)) # Null}

StoredStatuses(k) ==
    IF k = 0 THEN {"uploaded", "processing", "error"} ELSE {"completed", "regenerate", "error"}

StoredTrack(name, k, vc, status) ==
    [NewTrack(name, validateAndSanitizePath(UploadedFilePath(name, 1)), vc) EXCEPT
        !.status = status,
        !.settings = IF status = "uploaded" THEN NullSettings ELSE "settings",
        !.extendedPaths =
            [i \in 1..k |-> createSafeOutputPath(resultDir, ExtendedFilename(name, i - 1))],
        !.extendedDurations = [i \in 1..k |-> Duration],
        !.versionCount = IF k = 0 THEN vc ELSE k + 1,
        !.extendedBy = [i \in 1..k |-> i]]

WrittenTracks ==
    UNION {{StoredTrack(name, k, vc, status) : status \in StoredStatuses(k)} :
               name \in StoredNames, k \in 0..MaxVersions, vc \in DefaultVersionCounts}

\* path columns that were changed in the table after the row was written: a
\* file outside the allowed directories, and one with another extension
TamperedPaths ==
    {[abs |-> TRUE, segs |-> << <<"etc">>, <<"key", ".", "mp3">> >>],
     [abs |-> TRUE, segs |-> Cwd \o << <<"uploads">>, <<"notes", ".", "txt">> >>]}

\* completed tracks one of whose path columns was changed
TamperedTracks ==
    LET tracks == {track \in WrittenTracks : track.status = "completed"}
    IN {[track EXCEPT !.originalPath = q] : track \in tracks, q \in TamperedPaths}
       \cup UNION {{[track EXCEPT !.extendedPaths[i] = q] : i \in 1..Len(track.extendedPaths)} :
                       track \in tracks, q \in TamperedPaths}

StoredTracks == WrittenTracks \cup TamperedTracks

PathsOfTrack(track) ==
    {track.originalPath} \cup {track.extendedPaths[i] : i \in 1..Len(track.extendedPaths)}

\* one stored track or none, and any of its files on disk; the request
\* that is answered is the first one
DeliveryInit ==
    /\ \/ db = [i \in {} |-> NoTrack] /\ nextId = 1 /\ files = {}
       \/ \E track \in StoredTracks :
             /\ db = [i \in {1} |-> track]
             /\ files \in SUBSET {[path |-> q, track |-> 1] : q \in PathsOfTrack(track)}
             /\ nextId = 2
    /\ req = [r \in Slots |-> IdleRequest]
    /\ response = NoResponse
    /\ jobs = [i \in TrackIds |-> NoJobs]
    /\ started = 0
    /\ analysis = {}
    /\ pathIn = Null
    /\ pathOut = Null
    /\ pathPc = "off"
    /\ delivery = NoDelivery

\* req.params.type
Types == {"original", "extended", "preview"}

VersionQueries == {NoVersion} \cup {[given |-> TRUE, n |-> i] : i \in -1..MaxVersions}

RangeHeaders ==
    {NoRange}
    \cup {[given |-> TRUE, start |-> a, hasEnd |-> TRUE, end |-> b] : a, b \in 0..MaxByte}
    \cup {[given |-> TRUE, start |-> a, hasEnd |-> FALSE, end |-> 0] : a \in 0..MaxByte}

\* stat.size of a file on disk
FileLengths == 0..MaxFileLength

\* parseInt(req.query.version) || 0
Version(q) == IF q.given THEN q.n ELSE 0

Entry_Clamped(extendedPaths, version) ==
    IF Len(extendedPaths) = 0 THEN Null
    ELSE IF version < 0 THEN extendedPaths[1]
    ELSE IF version >= Len(extendedPaths) THEN extendedPaths[Len(extendedPaths)]
    ELSE extendedPaths[version + 1]

\* extendedPaths[version]: undefined outside the array
Entry(extendedPaths, version) ==
    IF version \in 0..(Len(extendedPaths) - 1) THEN extendedPaths[version + 1] ELSE Null

Exists(fs, path) == \E f \in fs : f.path = path

\* the bytes of a file of the given size that lie in start..end
BytesRead(start, end, size) ==
    LET last == IF end < size - 1 THEN end ELSE size - 1
    IN IF last < start THEN 0 ELSE last - start + 1

GuardStoredPath_Unchecked(filePath) == Resolve(filePath)

\* const safePath = validateAndSanitizePath(filePath)
GuardStoredPath(filePath) == validateAndSanitizePath(filePath)

\* GET /api/audio/:id/:type
StreamAudio(id, type, q, range, size) ==
    /\ delivery = NoDelivery
    /\ LET track == getAudioTrack(db, id)
           filePath == IF type = "extended"
                       THEN Entry(track.extendedPaths, Version(q))
                       ELSE track.originalPath
           safePath == GuardStoredPath(filePath)
           start == range.start
           end == IF range.hasEnd THEN range.end ELSE size - 1
           chunksize == end - start + 1
           answer == [NoDelivery EXCEPT !.op = "stream", !.id = id, !.type = type,
                                        !.version = q, !.range = range]
       IN delivery' =
            IF id = NaN THEN [answer EXCEPT !.code = 400]
            ELSE IF type # "original" /\ type # "extended" THEN [answer EXCEPT !.code = 400]
            ELSE IF track = NoTrack THEN [answer EXCEPT !.code = 404]
            ELSE IF filePath = Null THEN [answer EXCEPT !.code = 404]
            ELSE IF safePath = Null THEN [answer EXCEPT !.code = 400]
            ELSE IF ~Exists(files, safePath)
            THEN [answer EXCEPT !.code = 404, !.accessed = {safePath}]
            ELSE IF range.given
            THEN IF end < 0 \/ start > end
                 \* fs.createReadStream throws (ERR_OUT_OF_RANGE) before writeHead
                 THEN [answer EXCEPT !.code = 500, !.fileSize = size, !.accessed = {safePath}]
                 ELSE [answer EXCEPT !.code = 206, !.fileSize = size, !.opened = safePath,
                                     !.accessed = {safePath},
                                     !.contentRange = <<start, end, size>>,
                                     !.contentLength = chunksize,
                                     !.sent = BytesRead(start, end, size)]
            ELSE [answer EXCEPT !.code = 200, !.fileSize = size, !.opened = safePath,
                                !.accessed = {safePath},
                                !.contentLength = size, !.sent = size]
    /\ UNCHANGED <<trackVars, pathVars>>

\* GET /api/tracks/:id/download
DownloadTrack(id, q, size) ==
    /\ delivery = NoDelivery
    /\ LET track == getAudioTrack(db, id)
           version == Version(q)
           filePath == Entry(track.extendedPaths, version)
           safePath == GuardStoredPath(filePath)
           answer == [NoDelivery EXCEPT !.op = "download", !.id = id, !.type = "extended",
                                        !.version = q]
       IN delivery' =
            IF id = NaN THEN [answer EXCEPT !.code = 400]
            ELSE IF track = NoTrack THEN [answer EXCEPT !.code = 404]
            ELSE IF version >= Len(track.extendedPaths) \/ filePath = Null
            THEN [answer EXCEPT !.code = 404]
            ELSE IF safePath = Null THEN [answer EXCEPT !.code = 400]
            ELSE IF ~Exists(files, safePath)
            THEN [answer EXCEPT !.code = 404, !.accessed = {safePath}]
            ELSE [answer EXCEPT !.code = 200, !.fileSize = size, !.opened = safePath,
                                !.accessed = {safePath},
                                !.contentLength = size, !.sent = size,
                                !.filename = ExtendedFilename(track.originalFilename, version)]
    /\ UNCHANGED <<trackVars, pathVars>>

\* GET /api/tracks/:id
GetTrack(id) ==
    /\ delivery = NoDelivery
    /\ LET track == getAudioTrack(db, id)
           answer == [NoDelivery EXCEPT !.op = "track", !.id = id]
       IN delivery' =
            IF id = NaN THEN [answer EXCEPT !.code = 400]
            ELSE IF track = NoTrack THEN [answer EXCEPT !.code = 404]
            ELSE [answer EXCEPT !.code = 200, !.tracks = [i \in {id} |-> track]]
    /\ UNCHANGED <<trackVars, pathVars>>

\* GET /api/tracks
GetTracks ==
    /\ delivery = NoDelivery
    /\ delivery' = [NoDelivery EXCEPT !.op = "tracks", !.code = 200,
                                      !.tracks = getAudioTracksByUserId(db)]
    /\ UNCHANGED <<trackVars, pathVars>>

StatusBody_Completed(track) == "completed"

\* { status: track.status }
StatusBody(track) == track.status

\* GET /api/tracks/:id/status
GetStatus(id) ==
    /\ delivery = NoDelivery
    /\ LET track == getAudioTrack(db, id)
           answer == [NoDelivery EXCEPT !.op = "status", !.id = id]
       IN delivery' =
            IF id = NaN THEN [answer EXCEPT !.code = 400]
            ELSE IF track = NoTrack THEN [answer EXCEPT !.code = 404]
            ELSE [answer EXCEPT !.code = 200, !.status = StatusBody(track)]
    /\ UNCHANGED <<trackVars, pathVars>>

DeliveryNext ==
    \/ \E id \in TrackIds \cup {NaN}, type \in Types, q \in VersionQueries,
          range \in RangeHeaders, size \in FileLengths : StreamAudio(id, type, q, range, size)
    \/ \E id \in TrackIds \cup {NaN}, q \in VersionQueries, size \in FileLengths :
          DownloadTrack(id, q, size)
    \/ \E id \in TrackIds \cup {NaN} : GetTrack(id)
    \/ GetTracks
    \/ \E id \in TrackIds \cup {NaN} : GetStatus(id)

DeliverySpec == DeliveryInit /\ [][DeliveryNext]_vars

\* ---------------------------------------------- properties of the delivery
\* the version index the request names: 0 when the parameter is absent
RequestedIndex == IF delivery.version.given THEN delivery.version.n ELSE 0

RequestedPaths == db[delivery.id].extendedPaths

\* C18: a stream (or download) request for an extended version whose index
\* is not a valid index of extendedPaths (index >= length, negative, or a null
\* entry) is answered 404 and opens no file; with no version parameter
\* index 0 is used
C18_InvalidVersion404 ==
    delivery.type = "extended" /\ delivery.id \in DOMAIN db =>
        /\ (\/ RequestedIndex < 0
            \/ RequestedIndex >= Len(RequestedPaths)
            \/ RequestedPaths[RequestedIndex + 1] = Null)
               => delivery.code = 404 /\ delivery.opened = Null
        /\ delivery.opened # Null =>
              /\ RequestedIndex \in 0..(Len(RequestedPaths) - 1)
              /\ delivery.opened = RequestedPaths[RequestedIndex + 1]

\* version=3 was asked of a track with two versions
C18_Witness ==
    /\ delivery.op = "stream" /\ delivery.type = "extended" /\ delivery.id \in DOMAIN db
    /\ Len(RequestedPaths) = 2
    /\ \A i \in 1..2 : Exists(files, RequestedPaths[i])
    /\ delivery.version = [given |-> TRUE, n |-> 3]
    /\ delivery.code = 404

\* the file a stream request resolves to, Null when it resolves to none
ResolvedFile ==
    IF delivery.op # "stream" \/ delivery.id \notin DOMAIN db THEN Null
    ELSE IF delivery.type = "original" THEN db[delivery.id].originalPath
    ELSE IF delivery.type = "extended" /\ RequestedIndex \in 0..(Len(RequestedPaths) - 1)
    THEN RequestedPaths[RequestedIndex + 1]
    ELSE Null

\* C19: a stream request with Range bytes=start-end or bytes=start- on a file
\* of size S is answered 206 with Content-Range start-end/S and a
\* Content-Length equal to the bytes actually sent, end - start + 1 (end = S - 1
\* when omitted), between 1 and S; without Range it is answered 200 with
\* Content-Length S
C19_RangeResponse ==
    (/\ ResolvedFile # Null /\ validateAndSanitizePath(ResolvedFile) # Null
     /\ Exists(files, ResolvedFile) /\ delivery.fileSize >= 1) =>
        LET S == delivery.fileSize
            start == delivery.range.start
            end == IF delivery.range.hasEnd THEN delivery.range.end ELSE S - 1
        IN IF delivery.range.given
           THEN /\ delivery.code = 206
                /\ delivery.contentRange = <<start, end, S>>
                /\ delivery.contentLength = end - start + 1
                /\ delivery.contentLength = delivery.sent
                /\ delivery.contentLength \in 1..S
           ELSE delivery.code = 200 /\ delivery.contentLength = S

\* the stored path a stream or download request resolves to, Null when it
\* resolves to none
ResolvedPath ==
    IF delivery.op \notin {"stream", "download"} \/ delivery.id \notin DOMAIN db THEN Null
    ELSE IF delivery.op = "stream" /\ delivery.type = "original"
    THEN db[delivery.id].originalPath
    ELSE IF delivery.type = "extended" /\ RequestedIndex \in 0..(Len(RequestedPaths) - 1)
    THEN RequestedPaths[RequestedIndex + 1]
    ELSE Null

\* C27: in the stream and download handlers a resolved path that fails
\* validateAndSanitizePath is answered 400 and the file is neither stat-ed,
\* opened nor sent; existence checks and reads happen only on the validated path
C27_GuardBeforeAccess ==
    ResolvedPath # Null =>
        /\ validateAndSanitizePath(ResolvedPath) = Null =>
              /\ delivery.code = 400
              /\ delivery.accessed = {} /\ delivery.opened = Null
              /\ delivery.fileSize = 0 /\ delivery.sent = 0
        /\ delivery.accessed \subseteq {validateAndSanitizePath(ResolvedPath)}
        /\ delivery.opened # Null => delivery.opened = validateAndSanitizePath(ResolvedPath)

\* a download of a version whose stored path leaves the allowed directories,
\* with a file at that path, was answered 400
C27_Witness ==
    /\ delivery.op = "download" /\ ResolvedPath \in TamperedPaths
    /\ Exists(files, ResolvedPath)
    /\ delivery.code = 400

\* C29: the read-only endpoints (get track, list tracks, get status, stream,
\* download) leave every track record unchanged whatever they answer, and get
\* status answers the status stored when it reads the track
C29_ReadOnly ==
    [][/\ db' = db
       /\ \A id \in TrackIds \cup {NaN} :
             GetStatus(id) =>
                IF id \in DOMAIN db
                THEN delivery'.code = 200 /\ delivery'.status = db[id].status
                ELSE delivery'.code \in {400, 404} /\ delivery'.status = "none"]_vars

\* the status of a track that is being regenerated was asked for and answered
C29_Witness ==
    /\ delivery.op = "status" /\ delivery.code = 200
    /\ delivery.id \in DOMAIN db
    /\ db[delivery.id].status = "regenerate"
    /\ delivery.status = "regenerate"

====
